---- MODULE Spec2Model ----
(***************************************************************************)
(* Model of src/Module.py: load_json, validate_data and main.              *)
(*                                                                         *)
(* A file is either absent, unreadable, not UTF-8, or a text; a text is a  *)
(* sequence of JSON lexemes written without whitespace on one line.        *)
(* json.load is modelled by the recursive-descent decoder it runs; the     *)
(* call jsonschema.validate is an environment step whose result is one of  *)
(* "returns", "raises ValidationError(message, path)" or "raises another   *)
(* exception", which are the three cases validate_data distinguishes.      *)
(***************************************************************************)
EXTENDS Integers, Sequences, FiniteSets, TLC

VARIABLES
    fs,        \* the two files, each as open() found it
    prior,     \* validation.log as it was when the run started
    log,       \* validation.log
    data,      \* main's local data
    schema,    \* main's local schema
    is_valid,  \* main's local is_valid
    console,   \* the lines printed
    calls,     \* the calls main has made, with their arguments
    check,     \* what the call of jsonschema.validate did
    pc         \* main's position

vars == <<fs, prior, log, data, schema, is_valid, console, calls, check, pc>>

(***************************************************************************)
(* Bounds                                                                  *)
(***************************************************************************)
\* longest file text, in lexemes
MaxLen == 2
\* longest path carried by a ValidationError
MaxPath == 2

(***************************************************************************)
(* Python values                                                           *)
(***************************************************************************)
PyVal(t, v, items) == [t |-> t, v |-> v, items |-> items]

None == PyVal("NoneType", "None", <<>>)

PyFalse == PyVal("bool", "False", <<>>)

PyInt(n) == PyVal("int", n, <<>>)

PyStr(s) == PyVal("str", s, <<>>)

PyList(items) == PyVal("list", "", items)

PyDict == PyVal("dict", "", <<>>)

\* bool(x)
Truthy(x) ==
    CASE x.t = "NoneType" -> FALSE
      [] x.t = "bool"     -> x.v = "True"
      [] x.t = "int"      -> x.v # "0"
      [] x.t = "str"      -> x.v # ""
      [] x.t = "list"     -> x.items # <<>>
      [] x.t = "dict"     -> x.items # <<>>
      [] OTHER            -> TRUE

\* a local name of main that has not been assigned yet
Unbound == PyVal("<unbound>", "", <<>>)

(***************************************************************************)
(* Exceptions: the classes that occur and their base classes               *)
(***************************************************************************)
Bases(cls) ==
    CASE cls = "FileNotFoundError"  -> {"FileNotFoundError", "OSError", "Exception"}
      [] cls = "PermissionError"    -> {"PermissionError", "OSError", "Exception"}
      [] cls = "JSONDecodeError"    -> {"JSONDecodeError", "ValueError", "Exception"}
      [] cls = "UnicodeDecodeError" -> {"UnicodeDecodeError", "ValueError", "Exception"}
      [] cls = "ValidationError"    -> {"ValidationError", "Exception"}
      [] cls = "SchemaError"        -> {"SchemaError", "Exception"}
      [] cls = "TypeError"          -> {"TypeError", "Exception"}
      [] OTHER                      -> {cls}

\* does "except handler" catch an exception of class cls
Catches(handler, cls) == handler \in Bases(cls)

(***************************************************************************)
(* Files                                                                   *)
(***************************************************************************)
Tokens == {"null", "false", "0", "\"\"", "[", "]", "{", "}"}

TokLen(tok) ==
    CASE tok = "null"  -> 4
      [] tok = "false" -> 5
      [] tok = "\"\""  -> 2
      [] OTHER         -> 1

Texts == UNION {[1..n -> Tokens] : n \in 0..MaxLen}

File(kind, text) == [kind |-> kind, text |-> text]

Files ==
    {File("missing", <<>>), File("denied", <<>>), File("badutf8", <<>>)}
        \cup {File("text", s) : s \in Texts}

\* a file main has not opened yet
Unopened == File("unopened", <<>>)

DataPath == "data.json"

SchemaPath == "schema.json"

(***************************************************************************)
(* json.load: the decoder, over lexemes.  Positions are lexeme indexes     *)
(* (1-based); CharPos gives the 0-based character position the decoder     *)
(* reports.                                                                *)
(***************************************************************************)
RECURSIVE CharPos(_, _)
CharPos(s, idx) ==
    IF idx <= 1 THEN 0
    ELSE CharPos(s, idx - 1) + (IF idx - 1 <= Len(s) THEN TokLen(s[idx - 1]) ELSE 0)

Parsed(val, end) == [ok |-> TRUE, val |-> val, end |-> end, msg |-> ""]

ParseFail(msg, pos) == [ok |-> FALSE, val |-> None, end |-> pos, msg |-> msg]

RECURSIVE scan_once(_, _)
scan_once(s, idx) ==
    IF idx > Len(s) THEN ParseFail("Expecting value", idx)
    ELSE CASE s[idx] = "\"\""  -> Parsed(PyStr(""), idx + 1)
           [] s[idx] = "null"  -> Parsed(None, idx + 1)
           [] s[idx] = "false" -> Parsed(PyFalse, idx + 1)
           [] s[idx] = "0"     -> Parsed(PyInt("0"), idx + 1)
           [] s[idx] = "{"     ->
                \* JSONObject
                IF idx + 1 <= Len(s) /\ s[idx + 1] = "}"
                THEN Parsed(PyDict, idx + 2)
                ELSE IF idx + 1 <= Len(s) /\ s[idx + 1] = "\"\""
                THEN ParseFail("Expecting ':' delimiter", idx + 2)
                ELSE ParseFail("Expecting property name enclosed in double quotes",
                               idx + 1)
           [] s[idx] = "["     ->
                \* JSONArray
                IF idx + 1 <= Len(s) /\ s[idx + 1] = "]"
                THEN Parsed(PyList(<<>>), idx + 2)
                ELSE LET item == scan_once(s, idx + 1)
                     IN IF ~item.ok THEN item
                        ELSE IF item.end <= Len(s) /\ s[item.end] = "]"
                        THEN Parsed(PyList(<<item.val>>), item.end + 1)
                        ELSE ParseFail("Expecting ',' delimiter", item.end)
           [] OTHER            -> ParseFail("Expecting value", idx)

\* JSONDecoder.decode: one value, then the end of the text
decode(s) ==
    LET r == scan_once(s, 1)
    IN IF ~r.ok THEN r
       ELSE IF r.end # Len(s) + 1 THEN ParseFail("Extra data", r.end)
       ELSE r

(***************************************************************************)
(* Log records and console lines.  The message texts are the source's      *)
(* Russian texts in English.                                               *)
(***************************************************************************)
Record(level, msg, path, detail, lineno, colno, vpath) ==
    [level |-> level, msg |-> msg, path |-> path, detail |-> detail,
     lineno |-> lineno, colno |-> colno, vpath |-> vpath]

MsgRead == "File read successfully"

MsgNotFound == "File not found"

MsgParse == "JSON parse error in file"

MsgUnknownRead == "Unknown error while reading file"

MsgValid == "Validation succeeded"

MsgViolation == "JSON validation error"

MsgUnknownValidate == "Unknown error while validating JSON"

MsgNotLoaded == "Data or schema not loaded, validation impossible"

PrintValid == "Data is valid by schema"

PrintInvalid == "Data does NOT conform to schema, see log file for details"

LoaderMsgs == {MsgRead, MsgNotFound, MsgParse, MsgUnknownRead}

ValidatorMsgs == {MsgValid, MsgViolation, MsgUnknownValidate}

\* what was in validation.log before the run: the file is opened for
\* appending, and a record of an earlier run stands for its contents
OldRecord == Record("INFO", "earlier run", "", "", 0, 0, <<>>)

PriorLogs == {<<OldRecord>>}

(***************************************************************************)
(* load_json                                                               *)
(***************************************************************************)
\* lines 25-26: open the file and json.load it
ReadAndParse(file) ==
    CASE file.kind = "missing" ->
            [exc |-> "FileNotFoundError", val |-> None, msg |-> "No such file or directory", pos |-> 0]
      [] file.kind = "denied" ->
            [exc |-> "PermissionError", val |-> None, msg |-> "Permission denied", pos |-> 0]
      [] file.kind = "badutf8" ->
            [exc |-> "UnicodeDecodeError", val |-> None, msg |-> "invalid start byte", pos |-> 0]
      [] OTHER ->
            LET r == decode(file.text)
            IN IF r.ok
               THEN [exc |-> "", val |-> r.val, msg |-> "", pos |-> 0]
               ELSE [exc |-> "JSONDecodeError", val |-> None, msg |-> r.msg,
                     pos |-> CharPos(file.text, r.end)]

Result(ret, records, raised) == [ret |-> ret, log |-> records, raised |-> raised]

\* load_json without its last handler, "except Exception"
load_jsonNoCatchAll(file, filepath) ==
    LET r == ReadAndParse(file)
    IN IF r.exc = ""
       THEN Result(r.val, <<Record("INFO", MsgRead, filepath, "", 0, 0, <<>>)>>, "")
       ELSE IF Catches("FileNotFoundError", r.exc)
       THEN Result(None, <<Record("ERROR", MsgNotFound, filepath, "", 0, 0, <<>>)>>, "")
       ELSE IF Catches("JSONDecodeError", r.exc)
       THEN Result(None,
                   <<Record("ERROR", MsgParse, filepath, r.msg, 1, r.pos + 1, <<>>)>>, "")
       ELSE Result(None, <<>>, r.exc)

load_json(file, filepath) ==
    LET r == ReadAndParse(file)
    IN IF r.exc = ""
       THEN Result(r.val, <<Record("INFO", MsgRead, filepath, "", 0, 0, <<>>)>>, "")
       ELSE IF Catches("FileNotFoundError", r.exc)
       THEN Result(None, <<Record("ERROR", MsgNotFound, filepath, "", 0, 0, <<>>)>>, "")
       ELSE IF Catches("JSONDecodeError", r.exc)
       THEN Result(None,
                   <<Record("ERROR", MsgParse, filepath, r.msg, 1, r.pos + 1, <<>>)>>, "")
       ELSE IF Catches("Exception", r.exc)
       THEN Result(None,
                   <<Record("ERROR", MsgUnknownRead, filepath, r.msg, 0, 0, <<>>)>>, "")
       ELSE Result(None, <<>>, r.exc)

(***************************************************************************)
(* validate_data                                                           *)
(***************************************************************************)
PathElems == {PyStr("items"), PyInt("0"), PyStr("name")}

Paths == UNION {[1..n -> PathElems] : n \in 0..MaxPath}

Outcome(exc, message, path) == [exc |-> exc, message |-> message, path |-> path]

\* what the call validate(instance=data, schema=schema) of line 56 can do:
\* return, raise a ValidationError with its message and its path (e.message
\* and e.path, as the handler of line 62 reads them), or raise another
\* exception
Outcomes ==
    {Outcome("", "", <<>>)}
        \cup {Outcome("ValidationError", m, p) :
                m \in {"is a required property", "is not of type"}, p \in Paths}
        \cup {Outcome(c, "schema is not valid", <<>>) : c \in {"SchemaError", "TypeError"}}

\* a schema without keywords constrains nothing: the call returns
validate(instance, sch) ==
    IF sch = PyDict THEN {Outcome("", "", <<>>)} ELSE Outcomes

\* validate_data without its last handler, "except Exception"
validate_dataNoCatchAll(o) ==
    IF o.exc = ""
    THEN Result(TRUE, <<Record("INFO", MsgValid, "", "", 0, 0, <<>>)>>, "")
    ELSE IF Catches("ValidationError", o.exc)
    THEN Result(FALSE,
                <<Record("ERROR", MsgViolation, "", o.message, 0, 0, o.path)>>, "")
    ELSE Result(FALSE, <<>>, o.exc)

\* validate_data with "except Exception" placed before "except ValidationError"
validate_dataCatchAllFirst(o) ==
    IF o.exc = ""
    THEN Result(TRUE, <<Record("INFO", MsgValid, "", "", 0, 0, <<>>)>>, "")
    ELSE IF Catches("Exception", o.exc)
    THEN Result(FALSE,
                <<Record("ERROR", MsgUnknownValidate, "", o.message, 0, 0, <<>>)>>, "")
    ELSE Result(FALSE, <<>>, o.exc)

validate_data(o) ==
    IF o.exc = ""
    THEN Result(TRUE, <<Record("INFO", MsgValid, "", "", 0, 0, <<>>)>>, "")
    ELSE IF Catches("ValidationError", o.exc)
    THEN Result(FALSE,
                <<Record("ERROR", MsgViolation, "", o.message, 0, 0, o.path)>>, "")
    ELSE IF Catches("Exception", o.exc)
    THEN Result(FALSE,
                <<Record("ERROR", MsgUnknownValidate, "", o.message, 0, 0, <<>>)>>, "")
    ELSE Result(FALSE, <<>>, o.exc)

(***************************************************************************)
(* main                                                                    *)
(***************************************************************************)
Call(fn, args) == [fn |-> fn, args |-> args]

NotCalled == Outcome("<not called>", "", <<>>)

Init ==
    /\ fs = [p \in {DataPath, SchemaPath} |-> Unopened]
    /\ prior \in PriorLogs
    /\ log = prior
    /\ data = Unbound
    /\ schema = Unbound
    /\ is_valid = FALSE
    /\ console = <<>>
    /\ calls = <<>>
    /\ check = NotCalled
    /\ pc = "load_data"

\* main returning as soon as the data load has failed
LoadDataShortCircuit ==
    /\ pc = "load_data"
    /\ \E file \in Files :
         LET r == load_json(file, DataPath)
         IN /\ fs' = [fs EXCEPT ![DataPath] = file]
            /\ calls' = Append(calls, Call("load_json", <<PyStr(DataPath)>>))
            /\ data' = r.ret
            /\ IF r.ret = None
               THEN /\ log' = Append(log \o r.log,
                                     Record("ERROR", MsgNotLoaded, "", "", 0, 0, <<>>))
                    /\ pc' = "done"
               ELSE /\ log' = log \o r.log
                    /\ pc' = "load_schema"
    /\ UNCHANGED <<prior, schema, is_valid, console, check>>

\* line 81
LoadData ==
    /\ pc = "load_data"
    /\ \E file \in Files :
         LET r == load_json(file, DataPath)
         IN /\ fs' = [fs EXCEPT ![DataPath] = file]
            /\ log' = log \o r.log
            /\ calls' = Append(calls, Call("load_json", <<PyStr(DataPath)>>))
            /\ IF r.raised = ""
               THEN data' = r.ret /\ pc' = "load_schema"
               ELSE data' = data /\ pc' = "aborted"
    /\ UNCHANGED <<prior, schema, is_valid, console, check>>

\* line 82
LoadSchema ==
    /\ pc = "load_schema"
    /\ \E file \in Files :
         LET r == load_json(file, SchemaPath)
         IN /\ fs' = [fs EXCEPT ![SchemaPath] = file]
            /\ log' = log \o r.log
            /\ calls' = Append(calls, Call("load_json", <<PyStr(SchemaPath)>>))
            /\ IF r.raised = ""
               THEN schema' = r.ret /\ pc' = "check_loaded"
               ELSE schema' = schema /\ pc' = "aborted"
    /\ UNCHANGED <<prior, data, is_valid, console, check>>

\* "if data is None and schema is None"
CheckLoadedAnd ==
    /\ pc = "check_loaded"
    /\ IF data = None /\ schema = None
       THEN /\ log' = Append(log, Record("ERROR", MsgNotLoaded, "", "", 0, 0, <<>>))
            /\ pc' = "done"
       ELSE /\ log' = log
            /\ pc' = "validate"
    /\ UNCHANGED <<fs, prior, data, schema, is_valid, console, calls, check>>

\* "if not data or not schema"
CheckLoadedFalsy ==
    /\ pc = "check_loaded"
    /\ IF ~Truthy(data) \/ ~Truthy(schema)
       THEN /\ log' = Append(log, Record("ERROR", MsgNotLoaded, "", "", 0, 0, <<>>))
            /\ pc' = "done"
       ELSE /\ log' = log
            /\ pc' = "validate"
    /\ UNCHANGED <<fs, prior, data, schema, is_valid, console, calls, check>>

\* the early return without its logging.error
CheckLoadedSilent ==
    /\ pc = "check_loaded"
    /\ IF data = None \/ schema = None
       THEN /\ log' = log
            /\ pc' = "done"
       ELSE /\ log' = log
            /\ pc' = "validate"
    /\ UNCHANGED <<fs, prior, data, schema, is_valid, console, calls, check>>

\* lines 85-87
CheckLoaded ==
    /\ pc = "check_loaded"
    /\ IF data = None \/ schema = None
       THEN /\ log' = Append(log, Record("ERROR", MsgNotLoaded, "", "", 0, 0, <<>>))
            /\ pc' = "done"
       ELSE /\ log' = log
            /\ pc' = "validate"
    /\ UNCHANGED <<fs, prior, data, schema, is_valid, console, calls, check>>

\* line 90
Validate ==
    /\ pc = "validate"
    /\ \E o \in validate(data, schema) :
         LET r == validate_data(o)
         IN /\ log' = log \o r.log
            /\ calls' = Append(calls, Call("validate_data", <<data, schema>>))
            /\ check' = o
            /\ IF r.raised = ""
               THEN is_valid' = r.ret /\ pc' = "report"
               ELSE is_valid' = is_valid /\ pc' = "aborted"
    /\ UNCHANGED <<fs, prior, data, schema, console>>

\* the two print calls exchanged
ReportInverted ==
    /\ pc = "report"
    /\ console' = Append(console, IF is_valid THEN PrintInvalid ELSE PrintValid)
    /\ pc' = "done"
    /\ UNCHANGED <<fs, prior, log, data, schema, is_valid, calls, check>>

\* lines 93-96
Report ==
    /\ pc = "report"
    /\ console' = Append(console, IF is_valid THEN PrintValid ELSE PrintInvalid)
    /\ pc' = "done"
    /\ UNCHANGED <<fs, prior, log, data, schema, is_valid, calls, check>>

Next == LoadData \/ LoadSchema \/ CheckLoaded \/ Validate \/ Report

Spec == Init /\ [][Next]_vars

(***************************************************************************)
(* Vocabulary of the properties                                            *)
(***************************************************************************)
\* the records this run has appended
RunLog == SubSeq(log, Len(prior) + 1, Len(log))

Count(seq, P(_)) == Cardinality({i \in 1..Len(seq) : P(seq[i])})

IsNotLoaded(rec) == rec.msg = MsgNotLoaded

IsValidatorRecord(rec) == rec.msg \in ValidatorMsgs

IsValidateCall(c) == c.fn = "validate_data"

ValidatorInvoked == Count(calls, IsValidateCall) > 0

WellFormed(file) == file.kind = "text" /\ decode(file.text).ok

\* the loads main has finished
DataLoaded == pc \notin {"load_data", "aborted"} \/ (pc = "aborted" /\ Len(calls) > 1)

SchemaLoaded == pc \in {"check_loaded", "validate", "report", "done"}
                    \/ (pc = "aborted" /\ Len(calls) > 2)

(***************************************************************************)
(* C1: when the data load or the schema load returned None, main never     *)
(* calls validate_data, appends exactly one "not loaded" error record and  *)
(* prints nothing.                                                         *)
(***************************************************************************)
C1_AbsentLoadSkipsValidator ==
    (SchemaLoaded /\ (data = None \/ schema = None)) =>
        /\ ~ValidatorInvoked
        /\ pc \in {"check_loaded", "done"}
        /\ console = <<>>
        /\ Count(RunLog, IsValidatorRecord) = 0
        /\ pc = "done" =>
             /\ Count(RunLog, IsNotLoaded) = 1
             /\ RunLog[Len(RunLog)] = Record("ERROR", MsgNotLoaded, "", "", 0, 0, <<>>)

C1_Witness ==
    /\ pc = "done"
    /\ fs[DataPath].kind = "missing"
    /\ schema = PyDict
    /\ Count(RunLog, IsNotLoaded) = 1

(***************************************************************************)
(* C2: whenever both files hold well-formed JSON (the value null included) *)
(* and the data conforms to the schema, the run prints the success message *)
(* and logs no error record of the Validator.  The data conforms when the  *)
(* check of the parsed values can only return.                             *)
(***************************************************************************)
Conforms(instance, sch) == \A o \in validate(instance, sch) : o.exc = ""

C2_ConformingDataPrintsSuccess ==
    (/\ pc = "done"
     /\ WellFormed(fs[DataPath])
     /\ WellFormed(fs[SchemaPath])
     /\ Conforms(decode(fs[DataPath].text).val, decode(fs[SchemaPath].text).val)) =>
        /\ console = <<PrintValid>>
        /\ \A i \in 1..Len(RunLog) :
             IsValidatorRecord(RunLog[i]) => RunLog[i].level # "ERROR"

(***************************************************************************)
(* C3: a call of load_json never raises and appends exactly one record:    *)
(* an INFO record, returning the parsed value, when the file was read and  *)
(* parsed; an ERROR record, returning None, when the file is missing, is   *)
(* not well-formed JSON, or cannot be read for another reason.  It is      *)
(* called once per file.                                                   *)
(***************************************************************************)
LoadContract(file, path, ret, rec) ==
    /\ rec.path = path
    /\ CASE file.kind = "missing" ->
              rec.level = "ERROR" /\ rec.msg = MsgNotFound /\ ret = None
         [] file.kind \in {"denied", "badutf8"} ->
              rec.level = "ERROR" /\ rec.msg = MsgUnknownRead /\ ret = None
         [] file.kind = "text" ->
              LET r == decode(file.text)
              IN IF r.ok
                 THEN rec.level = "INFO" /\ rec.msg = MsgRead /\ ret = r.val
                 ELSE rec.level = "ERROR" /\ rec.msg = MsgParse /\ ret = None
         [] OTHER -> FALSE

IsLoadCall(c) == c.fn = "load_json"

C6_OneGenericConsoleLine ==
    /\ Len(console) <= 1
    /\ \A i \in 1..Len(console) : console[i] \in {PrintValid, PrintInvalid}
    /\ (pc = "done" /\ data # None /\ schema # None) =>
         /\ Len(console) = 1
         /\ console[1] = PrintValid <=> is_valid
         /\ console[1] = PrintInvalid <=> ~is_valid
         /\ is_valid <=> check.exc = ""

C6_Witness ==
    /\ pc = "done"
    /\ check.exc = "ValidationError"
    /\ console = <<PrintInvalid>>

(***************************************************************************)
(* C7: every run ends normally: nothing propagates out of load_json or     *)
(* validate_data, a run that has not ended is at a step it can take, each  *)
(* step is further down main than the calls made so far, and no call is    *)
(* made twice.                                                             *)
(***************************************************************************)
\* the guard of the step main is at
CanStep ==
    CASE pc \in {"load_data", "load_schema", "check_loaded", "report"} -> TRUE
      [] pc = "validate" -> validate(data, schema) # {}
      [] OTHER -> FALSE

Rank ==
    CASE pc = "load_data"    -> 0
      [] pc = "load_schema"  -> 1
      [] pc = "check_loaded" -> 2
      [] pc = "validate"     -> 3
      [] pc = "report"       -> 4
      [] OTHER               -> 5

C7_RunEndsNormally ==
    /\ pc # "aborted"
    /\ pc # "done" => CanStep
    /\ Len(calls) <= Rank
    /\ Len(calls) <= 3
    /\ \A i, j \in 1..Len(calls) : calls[i] = calls[j] => i = j
    /\ pc = "done" => Len(calls) \in {2, 3}

C7_Witness ==
    /\ pc = "done"
    /\ fs[DataPath].kind = "badutf8"
    /\ fs[SchemaPath].kind = "denied"
    /\ Len(calls) = 2

FalsyLoaded(x) == x \notin {None, Unbound} /\ ~Truthy(x)

C9_FalsyValuesAreValidated ==
    (/\ pc = "done"
     /\ data # None
     /\ schema # None
     /\ FalsyLoaded(data) \/ FalsyLoaded(schema)) =>
        /\ Len(calls) = 3
        /\ calls[3] = Call("validate_data", <<data, schema>>)
        /\ Len(console) = 1

C9_Witness ==
    /\ pc = "done"
    /\ data = PyInt("0")
    /\ schema = PyFalse
    /\ calls[3] = Call("validate_data", <<PyInt("0"), PyFalse>>)
    /\ Len(console) = 1

====
